---- MODULE Spec2Model ----
(***************************************************************************)
(* Model of the Meetup GraphQL documentation generator:                    *)
(*   docs/generate_schema.py  fetches the introspection schema and writes  *)
(*                            one JSON descriptor per query and per type;  *)
(*   docs/generate_docs.py    loads the descriptors and assembles          *)
(*                            index.html (sidebar, content, scroll-spy).   *)
(*                                                                         *)
(* Text is modelled character by character: a Python str is a sequence of  *)
(* one-character strings, so that re.sub, str.replace, f-string formatting *)
(* and anchor composition are computed the way the code computes them.     *)
(* Fixed markup lines (table headers, <hr/>, ...) are atomic tags of the   *)
(* element records the html lists are made of.                             *)
(***************************************************************************)
EXTENDS Integers, Sequences, FiniteSets, TLC

VARIABLES
    pc,        \* position in the run: fetch, extract, load, build, written, browsing
    server,    \* the schema as the GraphQL server holds it (input)
    schema,    \* resp.json()["data"]["__schema"] (generate_schema.main)
    qfiles,    \* api_doc/queries: file name -> JSON document
    tfiles,    \* api_doc/types:   file name -> JSON document
    queries,   \* generate_docs.main: load_json_files(QUERIES_DIR)
    types,     \* generate_docs.main: load_json_files(TYPES_DIR)
    sidebar,   \* build_html: the sidebar lines
    content,   \* build_html: the content lines
    layout,    \* browser: offsetTop / offsetHeight of every content line
    scrollY,   \* browser: window.scrollY
    active     \* browser: indexes of the sidebar lines whose link has class "active"

vars == <<pc, server, schema, qfiles, tfiles, queries, types, sidebar, content,
          layout, scrollY, active>>

-----------------------------------------------------------------------------
(* Bounds of the model.                                                     *)

\* Longest chain of NON_NULL / LIST wrappers the server's type references have.
MaxWrap == 5
\* Largest offsetHeight of a content line, and largest scroll position.
MaxHeight == 2
MaxScroll == 30

-----------------------------------------------------------------------------
(* Python values.                                                           *)

\* An optional str: None, or a str (json null / json string).
None == [none |-> TRUE, s |-> <<>>]
Str(s) == [none |-> FALSE, s |-> s]

\* str(None), as an f-string renders it.
NoneStr == <<"N", "o", "n", "e">>

\* f"{v}"
PyFormat(v) == IF v.none THEN NoneStr ELSE v.s

\* bool(v): None and "" are falsy.
Truthy(v) == ~v.none /\ v.s # <<>>

\* s.startswith(p)
StartsWith(s, p) == Len(s) >= Len(p) /\ SubSeq(s, 1, Len(p)) = p

\* s.endswith(p)
EndsWith(s, p) == Len(s) >= Len(p) /\ SubSeq(s, Len(s) - Len(p) + 1, Len(s)) = p

\* s.replace(old, new): every non-overlapping occurrence, left to right.
RECURSIVE Replace(_, _, _)
Replace(s, old, new) ==
    IF old = <<>>
    THEN IF s = <<>> THEN new ELSE new \o <<Head(s)>> \o Replace(Tail(s), old, new)
    ELSE IF Len(s) < Len(old) THEN s
    ELSE IF SubSeq(s, 1, Len(old)) = old
         THEN new \o Replace(SubSeq(s, Len(old) + 1, Len(s)), old, new)
         ELSE <<Head(s)>> \o Replace(Tail(s), old, new)

\* Concatenation of a sequence of sequences ("".join / list.extend).
RECURSIVE Flatten(_)
Flatten(ss) == IF ss = <<>> THEN <<>> ELSE Head(ss) \o Flatten(Tail(ss))

\* Code points of the characters names, file names and texts are made of.
ord ==
    [c \in {"\n", " ", ".", "/", ":", "1", "A", "B", "D", "I", "Q", "_",
            "a", "b", "d", "f", "h", "j", "n", "o", "p", "q", "s", "t", "x"} |->
        CASE c = "\n" -> 10 [] c = " " -> 32 [] c = "." -> 46 [] c = "/" -> 47
          [] c = ":" -> 58 [] c = "1" -> 49 [] c = "A" -> 65 [] c = "B" -> 66
          [] c = "D" -> 68 [] c = "I" -> 73 [] c = "Q" -> 81 [] c = "_" -> 95
          [] c = "a" -> 97 [] c = "b" -> 98 [] c = "d" -> 100 [] c = "f" -> 102
          [] c = "h" -> 104 [] c = "j" -> 106 [] c = "n" -> 110 [] c = "o" -> 111
          [] c = "p" -> 112 [] c = "q" -> 113 [] c = "s" -> 115 [] c = "t" -> 116
          [] c = "x" -> 120]

\* a < b for Python str: lexicographic on code points.
RECURSIVE StrLess(_, _)
StrLess(a, b) ==
    IF b = <<>> THEN FALSE
    ELSE IF a = <<>> THEN TRUE
    ELSE IF Head(a) = Head(b) THEN StrLess(Tail(a), Tail(b))
    ELSE ord[Head(a)] < ord[Head(b)]

\* The names as they come, unsorted.
sorted_as_listed(names) == names

\* sorted(names)
sorted(names) == SortSeq(names, StrLess)

-----------------------------------------------------------------------------
(* generate_schema.py                                                       *)

\* Levels of a type reference the TypeRef fragment of INTROSPECTION_QUERY
\* selects: the reference itself and four nested ofType.
TypeRefDepth == 5

\* A type reference is the chain of its nodes, outermost first: node i + 1 is
\* node i's ofType, and the empty chain is null.  TypeRef(t) is the reference
\* as the response carries it: below the deepest selected level there is no
\* ofType.
TypeRef(t) == SubSeq(t, 1, IF Len(t) < TypeRefDepth THEN Len(t) ELSE TypeRefDepth)

\* The response to INTROSPECTION_QUERY for the server's schema.
FetchArg(a) == [a EXCEPT !.type = TypeRef(a.type)]
FetchField(f) == [f EXCEPT !.type = TypeRef(f.type), !.args = [i \in 1..Len(f.args) |-> FetchArg(f.args[i])]]
FetchType(t) ==
    [t EXCEPT !.fields = [i \in 1..Len(t.fields) |-> FetchField(t.fields[i])],
              !.inputFields = [i \in 1..Len(t.inputFields) |-> FetchArg(t.inputFields[i])]]
IntrospectionResponse(s) == [s EXCEPT !.types = [i \in 1..Len(s.types) |-> FetchType(s.types[i])]]

\* unwrap_type with the ! of NON_NULL put before the inner string.
RECURSIVE unwrap_type_bang_first(_)
unwrap_type_bang_first(t) ==
    IF t = <<>> THEN None
    ELSE LET kind == Head(t).kind
             name == Head(t).name
             inner == unwrap_type_bang_first(Tail(t))
         IN  IF kind = "NON_NULL" THEN Str(<<"!">> \o PyFormat(inner))
             ELSE IF kind = "LIST" THEN Str(<<"[">> \o PyFormat(inner) \o <<"]">>)
             ELSE IF Truthy(name) THEN name ELSE inner

\* unwrap_type(t): the compact string of a type reference.
RECURSIVE unwrap_type(_)
unwrap_type(t) ==
    IF t = <<>> THEN None
    ELSE LET kind == Head(t).kind
             name == Head(t).name
             inner == unwrap_type(Tail(t))
         IN  IF kind = "NON_NULL" THEN Str(PyFormat(inner) \o <<"!">>)
             ELSE IF kind = "LIST" THEN Str(<<"[">> \o PyFormat(inner) \o <<"]">>)
             ELSE IF Truthy(name) THEN name ELSE inner

DotJson == <<".", "j", "s", "o", "n">>

\* The argument records of query_info / type_info.
ArgInfo(arg) ==
    [name |-> arg.name, description |-> arg.description,
     defaultValue |-> arg.defaultValue, type |-> unwrap_type(arg.type)]

\* query_info of one field of the query type.
QueryInfo(field) ==
    [name |-> field.name, description |-> field.description,
     args |-> [i \in 1..Len(field.args) |-> ArgInfo(field.args[i])], returnType |-> unwrap_type(field.type)]

FieldInfo(f) ==
    [name |-> f.name, description |-> f.description,
     args |-> [i \in 1..Len(f.args) |-> ArgInfo(f.args[i])], type |-> unwrap_type(f.type)]

ValueInfo(v) == [name |-> v.name, description |-> v.description]

PossibleInfo(pt) == [name |-> pt.name, kind |-> pt.kind]

\* type_info of one type: only the key of its kind is set; a key that is not
\* set is the empty list here (obj.get(key) is falsy either way).
TypeInfo(t) ==
    [kind |-> t.kind, name |-> t.name, description |-> t.description,
     fields |-> IF t.kind \in {"OBJECT", "INTERFACE"}
                THEN [i \in 1..Len(t.fields) |-> FieldInfo(t.fields[i])] ELSE <<>>,
     values |-> IF t.kind = "ENUM" THEN [i \in 1..Len(t.enumValues) |-> ValueInfo(t.enumValues[i])] ELSE <<>>,
     inputFields |-> IF t.kind = "INPUT_OBJECT"
                     THEN [i \in 1..Len(t.inputFields) |-> ArgInfo(t.inputFields[i])] ELSE <<>>,
     possibleTypes |-> IF t.kind = "UNION"
                       THEN [i \in 1..Len(t.possibleTypes) |-> PossibleInfo(t.possibleTypes[i])] ELSE <<>>]

\* save_json in a loop: the directory after writing every record of infos in
\* turn to "<name>.json" (a later file of the same name replaces the earlier
\* one).
RECURSIVE SaveAll(_, _)
SaveAll(dir, infos) ==
    IF infos = <<>> THEN dir
    ELSE LET path == Head(infos).name \o DotJson
             rest == [p \in DOMAIN dir \ {path} |-> dir[p]]
         IN  SaveAll(rest @@ (path :> Head(infos)), Tail(infos))

EmptyDir == [p \in {} |-> None]

\* types_index[query_type_name]: the last type of that name.
QueryTypeOf(s) ==
    LET idx == {i \in 1..Len(s.types) : s.types[i].name = s.queryType}
    IN  s.types[CHOOSE i \in idx : \A j \in idx : j <= i]

\* The types main writes a file for: named, and not GraphQL-internal.
Extracted(s) ==
    SelectSeq(s.types, LAMBDA t : t.name # <<>> /\ ~StartsWith(t.name, <<"_", "_">>))

-----------------------------------------------------------------------------
(* generate_docs.py: sanitising and loading                                 *)

Whitespace == {" ", "\n"}

Http == <<"h", "t", "t", "p", ":", "/", "/">>
Https == <<"h", "t", "t", "p", "s", ":", "/", "/">>

\* Length of the longest prefix of text without whitespace ([^\s]*).
RECURSIVE NonSpaceRun(_)
NonSpaceRun(text) ==
    IF text = <<>> \/ Head(text) \in Whitespace THEN 0 ELSE 1 + NonSpaceRun(Tail(text))

\* Length of the match of url_pattern, (https?://[^\s]+), at the start of
\* text; 0 when it does not match there.
UrlMatch(text) ==
    LET scheme == IF StartsWith(text, Https) THEN Len(Https)
                  ELSE IF StartsWith(text, Http) THEN Len(Http) ELSE 0
        run == NonSpaceRun(SubSeq(text, scheme + 1, Len(text)))
    IN  IF scheme > 0 /\ run > 0 THEN scheme + run ELSE 0

UrlOpen == <<"<", "a", " ", "h", "r", "e", "f", "=", "\"">>
UrlMid ==
    <<"\"", " ", "t", "a", "r", "g", "e", "t", "=", "\"", "_", "b", "l", "a", "n", "k",
      "\"", ">">>
AClose == <<"<", "/", "a", ">">>
Br == <<"<", "b", "r", ">">>

\* url_pattern.sub(r'<a href="\1" target="_blank">\1</a>', text)
RECURSIVE UrlSub(_)
UrlSub(text) ==
    IF text = <<>> THEN <<>>
    ELSE LET m == UrlMatch(text)
             url == SubSeq(text, 1, m)
         IN  IF m > 0
             THEN UrlOpen \o url \o UrlMid \o url \o AClose
                  \o UrlSub(SubSeq(text, m + 1, Len(text)))
             ELSE <<Head(text)>> \o UrlSub(Tail(text))

\* clean_html_parser(text)
clean_html_parser(text) ==
    IF text = <<>> THEN <<>> ELSE Replace(UrlSub(text), <<"\n">>, Br)

\* clean_html of an optional str: None is no str and is returned as it is.
CleanOpt(v) == IF v.none THEN v ELSE Str(clean_html_parser(v.s))

CleanArg(a) ==
    [name |-> clean_html_parser(a.name), description |-> CleanOpt(a.description),
     defaultValue |-> CleanOpt(a.defaultValue), type |-> CleanOpt(a.type)]

CleanArgs(args) == [i \in 1..Len(args) |-> CleanArg(args[i])]

CleanField(f) ==
    [name |-> clean_html_parser(f.name), description |-> CleanOpt(f.description),
     args |-> CleanArgs(f.args), type |-> CleanOpt(f.type)]

CleanValue(v) ==
    [name |-> clean_html_parser(v.name), description |-> CleanOpt(v.description)]

CleanPossible(pt) == [name |-> clean_html_parser(pt.name), kind |-> pt.kind]

\* clean_html(obj) of a JSON document: every str of it, at any depth, goes
\* through clean_html_parser.  A kind is one of GraphQL's kind words, which
\* hold neither a URL nor a newline: clean_html_parser leaves it as it is.
clean_html(obj) ==
    IF "returnType" \in DOMAIN obj
    THEN [name |-> clean_html_parser(obj.name),
          description |-> CleanOpt(obj.description),
          args |-> CleanArgs(obj.args), returnType |-> CleanOpt(obj.returnType)]
    ELSE [kind |-> obj.kind, name |-> clean_html_parser(obj.name),
          description |-> CleanOpt(obj.description),
          fields |-> [i \in 1..Len(obj.fields) |-> CleanField(obj.fields[i])],
          values |-> [i \in 1..Len(obj.values) |-> CleanValue(obj.values[i])],
          inputFields |-> CleanArgs(obj.inputFields),
          possibleTypes |->
              [i \in 1..Len(obj.possibleTypes) |-> CleanPossible(obj.possibleTypes[i])]]

\* A Python dict: its keys in insertion order, and the value of each.
EmptyDict == [keys |-> <<>>, val |-> [k \in {} |-> None]]

\* d[k] = v
DictPut(d, k, v) ==
    IF k \in DOMAIN d.val
    THEN [d EXCEPT !.val = [x \in DOMAIN d.val |-> IF x = k THEN v ELSE d.val[x]]]
    ELSE [keys |-> Append(d.keys, k), val |-> d.val @@ (k :> v)]

\* The loop of load_json_files over the file names.
RECURSIVE LoadLoop(_, _, _)
LoadLoop(data, folder, fnames) ==
    IF fnames = <<>> THEN data
    ELSE LET fname == Head(fnames)
         IN  IF EndsWith(fname, DotJson)
             THEN LoadLoop(DictPut(data, Replace(fname, DotJson, <<>>),
                                   clean_html(folder[fname])),
                           folder, Tail(fnames))
             ELSE LoadLoop(data, folder, Tail(fnames))

\* load_json_files(folder), where listdir is the order os.listdir gives the
\* file names in.  Every file was written by json.dump, so json.load succeeds.
load_json_files(folder, listdir) == LoadLoop(EmptyDict, folder, sorted(listdir))

\* The orders os.listdir may give the names of a directory in.
ListDir(folder) ==
    LET n == Cardinality(DOMAIN folder)
    IN  {l \in [1..n -> DOMAIN folder] : \A i, j \in 1..n : i # j => l[i] # l[j]}

-----------------------------------------------------------------------------
(* generate_docs.py: rendering                                              *)

Unknown == <<"U", "n", "k", "n", "o", "w", "n">>

CatQuery == <<"q", "u", "e", "r", "y">>
CatType == <<"t", "y", "p", "e">>
CatInput == <<"i", "n", "p", "u", "t">>
CatEnum == <<"e", "n", "u", "m">>
CatScalar == <<"s", "c", "a", "l", "a", "r">>
CatUnion == <<"u", "n", "i", "o", "n">>
CatInterface == <<"i", "n", "t", "e", "r", "f", "a", "c", "e">>
ArgsSuffix == <<"a", "r", "g", "s">>

AOpen == <<"<", "a", " ", "h", "r", "e", "f", "=", "'", "#">>
AMid == <<"'", ">">>

\* f"<a href='#{href}'>{text}</a>"
Link(href, text) == AOpen \o href \o AMid \o text \o AClose

\* kind_map without its "ENUM" and "INPUT_OBJECT" entries.
kind_map_short(kind) ==
    CASE kind = "OBJECT" -> CatType
      [] kind = "SCALAR" -> CatScalar
      [] kind = "UNION" -> CatUnion
      [] kind = "INTERFACE" -> CatInterface
      [] OTHER -> CatType

\* kind_map.get(kind, "type")
kind_map(kind) ==
    CASE kind = "OBJECT" -> CatType
      [] kind = "INPUT_OBJECT" -> CatInput
      [] kind = "ENUM" -> CatEnum
      [] kind = "SCALAR" -> CatScalar
      [] kind = "UNION" -> CatUnion
      [] kind = "INTERFACE" -> CatInterface
      [] OTHER -> CatType

\* re.sub(r"[\[\]!]", "", t)
StripModifiers(t) == SelectSeq(t, LAMBDA c : c \notin {"[", "]", "!"})

\* format_type(t, types) of an optional str t.  Every descriptor of types was
\* written with its "kind" key, so the default of .get("kind", "OBJECT") is
\* never taken.
format_type(t, tps) ==
    IF ~Truthy(t) THEN Unknown
    ELSE LET base == StripModifiers(t.s)
         IN  IF base \in DOMAIN tps.val
             THEN LET prefix == kind_map(tps.val[base].kind)
                  IN  Replace(t.s, base, Link(prefix \o <<"-">> \o base, base))
             ELSE t.s

\* One line of an html list: its markup (tag), the id attribute of its heading
\* and the texts formatted into it.
Line(tag, id, cells) == [tag |-> tag, id |-> id, cells |-> cells]

\* The row render_args appends for argument a.
ArgRow(a, tps) ==
    Line("tr", <<>>,
         <<a.name, format_type(a.type, tps), PyFormat(a.description),
           PyFormat(a.defaultValue)>>)

\* render_args(args, types): the lines it joins.
render_args(args, tps) ==
    IF args = <<>> THEN <<Line("p:No arguments", <<>>, <<>>)>>
    ELSE <<Line("table:Name,Type,Description,Default", <<>>, <<>>)>>
         \o [i \in 1..Len(args) |-> ArgRow(args[i], tps)]
         \o <<Line("/table", <<>>, <<>>)>>

\* f"{section_id}-{field_name}-args"
LinkId(section_id, field_name) ==
    section_id \o <<"-">> \o field_name \o <<"-">> \o ArgsSuffix

\* kind == "type": the row of field f in the field table.
TypeFieldRow(f, section_id, tps) ==
    Line("tr", <<>>,
         <<IF f.args # <<>> THEN Link(LinkId(section_id, f.name), f.name) ELSE f.name,
           format_type(f.type, tps), PyFormat(f.description)>>)

\* kind == "type": the argument subsections, in the order of the fields.
RECURSIVE TypeFieldArgs(_, _, _, _)
TypeFieldArgs(fields, section_id, tps, gen_args) ==
    IF fields = <<>> THEN <<>>
    ELSE LET f == Head(fields)
         IN  IF f.args # <<>>
             THEN (IF gen_args THEN <<>> ELSE <<Line("h3:Arguments", <<>>, <<>>)>>)
                  \o <<Line("h4", LinkId(section_id, f.name), <<f.name>>)>>
                  \o render_args(f.args, tps)
                  \o TypeFieldArgs(Tail(fields), section_id, tps, TRUE)
             ELSE TypeFieldArgs(Tail(fields), section_id, tps, gen_args)

\* kind == "interface": the row of field f in the field table.
InterfaceFieldRow(f, tps) ==
    Line("tr", <<>>, <<f.name, format_type(f.type, tps), PyFormat(f.description)>>)

\* kind == "input": the row of input field f.
InputFieldRow(f, tps) ==
    Line("tr", <<>>,
         <<f.name, format_type(f.type, tps), PyFormat(f.description),
           PyFormat(f.defaultValue)>>)

\* kind == "enum": the row of value v.
EnumValueRow(v) == Line("tr", <<>>, <<v.name, PyFormat(v.description)>>)

\* The body of generate_section's loop below the description, by kind.
SectionBody(obj, section_id, tps, kind) ==
    IF kind = CatQuery THEN
        <<Line("h3:Arguments", <<>>, <<>>)>> \o render_args(obj.args, tps)
        \o <<Line("h3:Response", <<>>, <<>>),
             Line("p", <<>>, <<format_type(obj.returnType, tps)>>)>>
    ELSE IF kind = CatType THEN
        IF obj.fields = <<>> THEN <<>>
        ELSE <<Line("h3:Fields,table:Name,Type,Description", <<>>, <<>>)>>
             \o [i \in 1..Len(obj.fields) |-> TypeFieldRow(obj.fields[i], section_id, tps)]
             \o <<Line("/table", <<>>, <<>>)>>
             \o TypeFieldArgs(obj.fields, section_id, tps, FALSE)
             \o <<Line("hr", <<>>, <<>>)>>
    ELSE IF kind = CatInput THEN
        IF obj.inputFields = <<>> THEN <<>>
        ELSE <<Line("h3:Input Fields,table:Name,Type,Description,Default", <<>>, <<>>)>>
             \o [i \in 1..Len(obj.inputFields) |-> InputFieldRow(obj.inputFields[i], tps)]
             \o <<Line("/table", <<>>, <<>>)>>
    ELSE IF kind = CatEnum THEN
        IF obj.values = <<>> THEN <<>>
        ELSE <<Line("h3:Values,table:Name,Description", <<>>, <<>>)>>
             \o [i \in 1..Len(obj.values) |-> EnumValueRow(obj.values[i])]
             \o <<Line("/table", <<>>, <<>>)>>
    ELSE IF kind = CatScalar THEN <<Line("p:Scalar type", <<>>, <<>>)>>
    ELSE IF kind = CatUnion THEN
        IF obj.possibleTypes = <<>> THEN <<>>
        ELSE <<Line("h3:Possible Types,ul", <<>>, <<>>)>>
             \o [i \in 1..Len(obj.possibleTypes) |->
                    Line("li", <<>>,
                         <<format_type(Str(obj.possibleTypes[i].name), tps)>>)]
             \o <<Line("/ul", <<>>, <<>>)>>
    ELSE IF kind = CatInterface THEN
        IF obj.fields = <<>> THEN <<>>
        ELSE <<Line("h3:Fields,table:Name,Type,Description", <<>>, <<>>)>>
             \o [i \in 1..Len(obj.fields) |-> InterfaceFieldRow(obj.fields[i], tps)]
             \o <<Line("/table", <<>>, <<>>)>>
    ELSE <<>>

\* The id without its kind.
SectionId_name_only(kind, name) == name

\* f"{kind}-{name}"
SectionId(kind, name) == kind \o <<"-">> \o name

\* One pass of generate_section's loop: the lines of item name.
Section(name, obj, tps, kind) ==
    <<Line("h2", SectionId(kind, name), <<name>>)>>
    \o (IF Truthy(obj.description)
        THEN <<Line("p", <<>>, <<obj.description.s>>)>> ELSE <<>>)
    \o SectionBody(obj, SectionId(kind, name), tps, kind)

\* generate_section(title, items, types, kind): the lines it joins.  The title
\* is fixed by the kind at each of the seven calls.
generate_section(items, tps, kind) ==
    <<Line("h1", kind, <<>>)>>
    \o Flatten([i \in 1..Len(items.keys) |->
                   Section(items.keys[i], items.val[items.keys[i]], tps, kind)])

\* build_html: grouped[kind], the types of that kind in the order of types.
\* (A type whose kind is none of the six keys of grouped is in no group.)
grouped(tps, kind) ==
    LET keys == SelectSeq(tps.keys, LAMBDA n : tps.val[n].kind = kind)
    IN  [keys |-> keys, val |-> [n \in {keys[i] : i \in 1..Len(keys)} |-> tps.val[n]]]

\* build_html.sidebar_section(label, kind, items): the lines it joins.
sidebar_section(kind, items) ==
    <<Line("div.sidebar-section", <<>>, <<>>)>>
    \o [i \in 1..Len(items.keys) |->
           Line("li", <<>>, <<Link(SectionId(kind, items.keys[i]), items.keys[i])>>)]
    \o <<Line("/div", <<>>, <<>>)>>

\* The sidebar with the types in the order of the keys of grouped.
Sidebar_grouped_order(qs, tps) ==
    sidebar_section(CatQuery, qs)
    \o sidebar_section(CatType, grouped(tps, "OBJECT"))
    \o sidebar_section(CatInterface, grouped(tps, "INTERFACE"))
    \o sidebar_section(CatEnum, grouped(tps, "ENUM"))
    \o sidebar_section(CatScalar, grouped(tps, "SCALAR"))
    \o sidebar_section(CatInput, grouped(tps, "INPUT_OBJECT"))
    \o sidebar_section(CatUnion, grouped(tps, "UNION"))

\* build_html: the sidebar.
Sidebar(qs, tps) ==
    sidebar_section(CatQuery, qs)
    \o sidebar_section(CatType, grouped(tps, "OBJECT"))
    \o sidebar_section(CatInput, grouped(tps, "INPUT_OBJECT"))
    \o sidebar_section(CatEnum, grouped(tps, "ENUM"))
    \o sidebar_section(CatScalar, grouped(tps, "SCALAR"))
    \o sidebar_section(CatInterface, grouped(tps, "INTERFACE"))
    \o sidebar_section(CatUnion, grouped(tps, "UNION"))

\* build_html: the content.
Content(qs, tps) ==
    generate_section(qs, tps, CatQuery)
    \o generate_section(grouped(tps, "OBJECT"), tps, CatType)
    \o generate_section(grouped(tps, "INPUT_OBJECT"), tps, CatInput)
    \o generate_section(grouped(tps, "ENUM"), tps, CatEnum)
    \o generate_section(grouped(tps, "SCALAR"), tps, CatScalar)
    \o generate_section(grouped(tps, "INTERFACE"), tps, CatInterface)
    \o generate_section(grouped(tps, "UNION"), tps, CatUnion)

-----------------------------------------------------------------------------
(* index.html in the browser: the scroll listener of the embedded script    *)

\* The targets of the href='#...' attributes in text, in order.
RECURSIVE Hrefs(_)
Hrefs(text) ==
    IF Len(text) < Len(AOpen) THEN <<>>
    ELSE IF StartsWith(text, AOpen)
         THEN LET rest == SubSeq(text, Len(AOpen) + 1, Len(text))
                  n == CHOOSE k \in 1..Len(rest) :
                           rest[k] = "'" /\ \A j \in 1..(k - 1) : rest[j] # "'"
              IN  <<SubSeq(rest, 1, n - 1)>> \o Hrefs(SubSeq(rest, n + 1, Len(rest)))
         ELSE Hrefs(Tail(text))

\* document.querySelectorAll("#sidebar a"): the sidebar lines that hold a link.
SidebarLinks(sb) == {i \in 1..Len(sb) : sb[i].tag = "li"}

\* link.getAttribute("href"), without its leading #.
HrefOf(line) == Hrefs(line.cells[1])[1]

\* document.querySelector("#" + id): the first content line of that id; 0 is null.
querySelector(ct, id) ==
    LET hits == {i \in 1..Len(ct) : ct[i].id = id}
    IN  IF hits = {} THEN 0 ELSE CHOOSE i \in hits : \A j \in hits : i <= j

\* let fromTop = window.scrollY + 10
ScrollOffset == 10

\* #content { padding:30px }: the first content line starts below it.
ContentPadding == 30

\* Whether the listener's condition holds of sidebar link i at scroll position y.
InView(i, y, sb, ct, lay) ==
    LET fromTop == y + ScrollOffset
        section == querySelector(ct, HrefOf(sb[i]))
    IN  /\ section # 0
        /\ lay[section].offsetTop <= fromTop
        /\ lay[section].offsetTop + lay[section].offsetHeight > fromTop

\* The scroll listener without its else branch.
ScrollListener_add_only(act, y, sb, ct, lay) ==
    act \cup {i \in SidebarLinks(sb) : InView(i, y, sb, ct, lay)}

\* The scroll listener: the links of class "active" after it ran at position y.
ScrollListener(act, y, sb, ct, lay) ==
    (act \cup {i \in SidebarLinks(sb) : InView(i, y, sb, ct, lay)})
        \ {i \in SidebarLinks(sb) : ~InView(i, y, sb, ct, lay)}

\* The content lines are blocks in normal flow (the style sheet positions none
\* of them): each starts where the one before it ends.
RECURSIVE Stack(_, _)
Stack(heights, top) ==
    IF heights = <<>> THEN <<>>
    ELSE <<[offsetTop |-> top, offsetHeight |-> Head(heights)]>>
         \o Stack(Tail(heights), top + Head(heights))

\* The layouts the browser may give the content: every section heading (h2)
\* some height of its own, every other line the same height.
Layouts(ct) ==
    LET h2 == {i \in 1..Len(ct) : ct[i].tag = "h2"}
    IN  {Stack([i \in 1..Len(ct) |-> IF i \in h2 THEN hh[i] ELSE oh], ContentPadding) :
            hh \in [h2 -> 1..MaxHeight], oh \in 1..MaxHeight}

-----------------------------------------------------------------------------
(* The run: generate_schema.main, generate_docs.main, then the browser.     *)

\* requests.post(API_URL, json={"query": INTROSPECTION_QUERY}); resp.json()
Fetch ==
    /\ pc = "fetch"
    /\ schema' = IntrospectionResponse(server)
    /\ pc' = "extract"
    /\ UNCHANGED <<server, qfiles, tfiles, queries, types, sidebar, content,
                   layout, scrollY, active>>

\* generate_schema.main: one file per query and per type.
Extract ==
    /\ pc = "extract"
    /\ LET fields == QueryTypeOf(schema).fields
       IN  qfiles' = SaveAll(EmptyDir, [i \in 1..Len(fields) |-> QueryInfo(fields[i])])
    /\ LET ts == Extracted(schema)
       IN  tfiles' = SaveAll(EmptyDir, [i \in 1..Len(ts) |-> TypeInfo(ts[i])])
    /\ pc' = "load"
    /\ UNCHANGED <<server, schema, queries, types, sidebar, content,
                   layout, scrollY, active>>

\* generate_docs.main: load_json_files(QUERIES_DIR), load_json_files(TYPES_DIR).
Load ==
    /\ pc = "load"
    /\ \E ql \in ListDir(qfiles), tl \in ListDir(tfiles) :
           /\ queries' = load_json_files(qfiles, ql)
           /\ types' = load_json_files(tfiles, tl)
    /\ pc' = "build"
    /\ UNCHANGED <<server, schema, qfiles, tfiles, sidebar, content,
                   layout, scrollY, active>>

\* generate_docs.main: build_html(queries, types), written to index.html.
Build ==
    /\ pc = "build"
    /\ sidebar' = Sidebar(queries, types)
    /\ content' = Content(queries, types)
    /\ pc' = "written"
    /\ UNCHANGED <<server, schema, qfiles, tfiles, queries, types,
                   layout, scrollY, active>>

\* The browser opens index.html: no link is active, no scroll event yet.
PageLoad ==
    /\ pc = "written"
    /\ layout' \in Layouts(content)
    /\ scrollY' = 0
    /\ active' = {}
    /\ pc' = "page"
    /\ UNCHANGED <<server, schema, qfiles, tfiles, queries, types, sidebar, content>>

\* A scroll event at position y.
Scroll ==
    /\ pc \in {"page", "scrolled"}
    /\ \E y \in 0..MaxScroll :
           /\ scrollY' = y
           /\ active' = ScrollListener(active, y, sidebar, content, layout)
    /\ pc' = "scrolled"
    /\ UNCHANGED <<server, schema, qfiles, tfiles, queries, types, sidebar, content,
                   layout>>

Generate == Fetch \/ Extract \/ Load \/ Build

Next == Fetch \/ Extract \/ Load \/ Build \/ PageLoad \/ Scroll

\* The state before the run, for the server's schema s.
Start(s) ==
    /\ pc = "fetch"
    /\ server = s
    /\ schema = [queryType |-> <<>>, types |-> <<>>]
    /\ qfiles = EmptyDir
    /\ tfiles = EmptyDir
    /\ queries = EmptyDict
    /\ types = EmptyDict
    /\ sidebar = <<>>
    /\ content = <<>>
    /\ layout = <<>>
    /\ scrollY = 0
    /\ active = {}

-----------------------------------------------------------------------------
(* The schemas the run starts from.                                         *)

\* Most fields (input fields, enum values) a type declares.
MaxFields == 2

NameID == <<"I", "D">>
NameA == <<"A">>
NameAB == <<"A", "B">>
NameB == <<"B">>
NameQ == <<"Q">>

\* The nodes of a type reference.
Wrapper(kind) == [kind |-> kind, name |-> None]
Named(kind, name) == [kind |-> kind, name |-> Str(name)]

\* The references to a type of the given kind and name under at most n
\* wrappers.  GraphQL has no NON_NULL of a NON_NULL.
TypeRefs(kind, name, n) ==
    {[i \in 1..Len(w) |-> Wrapper(w[i])] \o <<Named(kind, name)>> :
        w \in {v \in UNION {[1..k -> {"NON_NULL", "LIST"}] : k \in 0..n} :
                  \A i \in 1..(Len(v) - 1) : v[i] = "NON_NULL" => v[i + 1] = "LIST"}}

\* ID!, and [A]
NonNullID == <<Wrapper("NON_NULL"), Named("SCALAR", NameID)>>
ListOf(kind, name) == <<Wrapper("LIST"), Named(kind, name)>>

TypeDef(kind, name, description, fields, inputFields, enumValues, possibleTypes) ==
    [kind |-> kind, name |-> name, description |-> description, fields |-> fields,
     inputFields |-> inputFields, enumValues |-> enumValues,
     possibleTypes |-> possibleTypes]

Field(name, description, args, type) ==
    [name |-> name, description |-> description, args |-> args, type |-> type]

Arg(name, description, defaultValue, type) ==
    [name |-> name, description |-> description, defaultValue |-> defaultValue,
     type |-> type]

\* The query type Q with the given fields.
QueryType(fields) == TypeDef("OBJECT", NameQ, None, fields, <<>>, <<>>, <<>>)

Schema(ts) == [queryType |-> NameQ, types |-> ts]

\* The kinds of GraphQL's named types, and a kind that is none of them.
Kinds == {"OBJECT", "INPUT_OBJECT", "ENUM", "SCALAR", "UNION", "INTERFACE"}
OtherKind == "OTHER"

\* The injective sequences of length n over S: the orders of n elements of S.
Orders(S, n) == {l \in [1..n -> S] : \A i, j \in 1..n : i # j => l[i] # l[j]}

\* Schemas for the resolver and the linker: query q returns a reference to ID
\* (a built-in, in no file) or to A, under every chain of wrappers; a type A
\* of every kind, or no type A.
ResolveSchemas ==
    {Schema(<<QueryType(<<Field(<<"q">>, None, <<>>, ref)>>)>> \o rest) :
        ref \in TypeRefs("SCALAR", NameID, MaxWrap) \cup TypeRefs("OBJECT", NameA, MaxWrap),
        rest \in {<<>>} \cup {<<TypeDef(k, NameA, None, <<>>, <<>>, <<>>, <<>>)>> :
                                 k \in Kinds \cup {OtherKind}}}

\* Texts: a description with a URL and a newline, and a default value.
SomeText == <<"s", " ", "h", "t", "t", "p", ":", "/", "/", "x", "\n", "d">>
SomeDefault == <<"1">>

ArgA(description, defaultValue) == Arg(<<"a">>, description, defaultValue, NonNullID)
ArgB(description, defaultValue) == Arg(<<"b">>, description, defaultValue, NonNullID)

\* What a field, input field or enum value of the name may look like: with or
\* without a description, a default value, arguments.
Entries(name) ==
    {[name |-> name, description |-> None, defaultValue |-> None, args |-> <<>>],
     [name |-> name, description |-> Str(SomeText), defaultValue |-> None, args |-> <<>>],
     [name |-> name, description |-> None, defaultValue |-> None,
      args |-> <<ArgA(None, None)>>],
     [name |-> name, description |-> Str(SomeText), defaultValue |-> Str(SomeDefault),
      args |-> <<ArgA(Str(SomeText), Str(SomeDefault)), ArgB(None, None)>>]}

EntryNames == {<<"f">>, <<"g">>, <<"h">>}

\* The declarations of 1..MaxFields entries of different names.
EntryLists ==
    UNION {{l \in [1..n -> UNION {Entries(name) : name \in EntryNames}] :
               \A i, j \in 1..n : i # j => l[i].name # l[j].name} : n \in 1..MaxFields}

EntryField(e) == Field(e.name, e.description, e.args, NonNullID)
EntryInput(e) == Arg(e.name, e.description, e.defaultValue, NonNullID)
EntryValue(e) == [name |-> e.name, description |-> e.description]

\* The type of the kind and name declaring the entries es (a union: of the
\* one possible type B).
EntryType(kind, name, es) ==
    TypeDef(kind, name, None,
            IF kind \in {"OBJECT", "INTERFACE"}
            THEN [i \in 1..Len(es) |-> EntryField(es[i])] ELSE <<>>,
            IF kind = "INPUT_OBJECT"
            THEN [i \in 1..Len(es) |-> EntryInput(es[i])] ELSE <<>>,
            IF kind = "ENUM" THEN [i \in 1..Len(es) |-> EntryValue(es[i])] ELSE <<>>,
            IF kind = "UNION" THEN <<[name |-> NameB, kind |-> "OBJECT"]>> ELSE <<>>)

\* Schemas for the tables: query q with no, one or two arguments, and a type
\* A that is an object, an interface, an input object or an enum.
SectionSchemas ==
    {Schema(<<QueryType(<<Field(<<"q">>, None, args, NonNullID)>>),
              EntryType(kind, NameA, es)>>) :
        args \in {<<>>, <<ArgA(None, None)>>,
                  <<ArgA(Str(SomeText), None), ArgB(None, Str(SomeDefault))>>},
        kind \in {"OBJECT", "INTERFACE", "INPUT_OBJECT", "ENUM"},
        es \in EntryLists}

\* Query A(a: ID!): A!  and query B: [AB]
QueryA == Field(NameA, None, <<ArgA(None, None)>>, <<Wrapper("NON_NULL"), Named("OBJECT", NameA)>>)
QueryB == Field(NameB, Str(SomeText), <<>>, ListOf("OBJECT", NameAB))

\* A type of the kind and name with one field f(a: ID!) (input field, value f).
PlainType(kind, name) ==
    EntryType(kind, name,
              <<[name |-> <<"f">>, description |-> None, defaultValue |-> None,
                 args |-> <<ArgA(None, None)>>]>>)

\* The sets of types a schema declares beside Q: A of any kind, B and AB of
\* some kinds, each or none of them.
TypeSets ==
    {a \cup b \cup ab :
        a \in {{}} \cup {{PlainType(k, NameA)} : k \in Kinds \cup {OtherKind}},
        b \in {{}} \cup {{PlainType(k, NameB)} : k \in {"OBJECT", "UNION"}},
        ab \in {{}} \cup {{PlainType(k, NameAB)} : k \in {"INTERFACE", OtherKind}}}

\* Schemas for the assembly: the queries A and B in any order, one or both,
\* and the types of a set in any order of declaration.
AssembleSchemas ==
    UNION {{Schema(<<QueryType(qs)>> \o ts) :
               qs \in {<<QueryA>>, <<QueryA, QueryB>>, <<QueryB, QueryA>>},
               ts \in Orders(S, Cardinality(S))} : S \in TypeSets}

\* Schemas for the browser: three sections each.
BrowseSchemas ==
    {Schema(<<QueryType(<<QueryA>>), PlainType("OBJECT", NameA)>>),
     Schema(<<QueryType(<<QueryA>>), PlainType("ENUM", NameA)>>),
     Schema(<<QueryType(<<QueryB, QueryA>>)>>)}

-----------------------------------------------------------------------------
(* Specifications.                                                          *)

Init == \E s \in BrowseSchemas : Start(s)
InitResolve == \E s \in ResolveSchemas : Start(s)
InitSections == \E s \in SectionSchemas : Start(s)
InitAssemble == \E s \in AssembleSchemas : Start(s)

\* The whole run, the page in the browser included.
Spec == Init /\ [][Next]_vars

\* The two programs, up to index.html.
SpecResolve == InitResolve /\ [][Generate]_vars
SpecSections == InitSections /\ [][Generate]_vars
SpecAssemble == InitAssemble /\ [][Generate]_vars

-----------------------------------------------------------------------------
(* Reading the run's state.                                                 *)

Wrappers == {"NON_NULL", "LIST"}

\* A chain of wrappers that ends in a named leaf.
WellFormed(t) ==
    /\ t # <<>>
    /\ \A i \in 1..(Len(t) - 1) : t[i].kind \in Wrappers
    /\ t[Len(t)].kind \notin Wrappers
    /\ Truthy(t[Len(t)].name)

\* The modifiers of a reference, outermost first, and the name of its leaf.
Modifiers(t) == [i \in 1..(Len(t) - 1) |-> t[i].kind]
LeafName(t) == t[Len(t)].name.s

\* The modifiers folded onto text from the innermost to the outermost: LIST
\* puts it in [ ], NON_NULL puts ! after it.
RECURSIVE FoldModifiers(_, _)
FoldModifiers(mods, text) ==
    IF mods = <<>> THEN text
    ELSE LET m == mods[Len(mods)]
         IN  FoldModifiers(SubSeq(mods, 1, Len(mods) - 1),
                           IF m = "LIST" THEN <<"[">> \o text \o <<"]">>
                           ELSE text \o <<"!">>)

\* The fields of the query type in the response, and the file of query name.
QueryFields == QueryTypeOf(schema).fields
QueryFile(name) == qfiles[name \o DotJson]

\* The lines of the section of the id: from its heading to the next h1 or h2.
SectionLines(ct, id) ==
    LET first == querySelector(ct, id)
        ends == {j \in (first + 1)..Len(ct) : ct[j].tag \in {"h1", "h2"}}
        last == IF ends = {} THEN Len(ct) ELSE (CHOOSE j \in ends : \A k \in ends : j <= k) - 1
    IN  SubSeq(ct, first, last)

\* The text under the Response heading of query name.
ResponseOf(ct, name) ==
    LET sec == SectionLines(ct, SectionId(CatQuery, name))
    IN  sec[(CHOOSE k \in 1..Len(sec) : sec[k].tag = "h3:Response") + 1].cells[1]

NonNullListNonNullID ==
    <<Wrapper("NON_NULL"), Wrapper("LIST"), Wrapper("NON_NULL"), Named("SCALAR", NameID)>>

-----------------------------------------------------------------------------
(* Claims on the resolver and the linker (SpecResolve).                     *)

\* C1: a chain of NON_NULL / LIST wrappers of any depth that ends in a named
\* leaf resolves to the leaf name with the modifiers folded onto it from the
\* innermost to the outermost; NON_NULL(LIST(NON_NULL(ID))) resolves to
\* "[ID!]!"; and the result without its [, ] and ! is the leaf name.  It is
\* stated of the signatures in the query files, and of unwrap_type on the
\* server's references, which are deeper than the response carries.
C1_Resolved ==
    /\ pc \notin {"fetch", "extract"} =>
          \A i \in 1..Len(QueryFields) :
              LET t == QueryFields[i].type
                  sig == QueryFile(QueryFields[i].name).returnType
              IN  WellFormed(t) =>
                      /\ sig = Str(FoldModifiers(Modifiers(t), LeafName(t)))
                      /\ StripModifiers(sig.s) = LeafName(t)
                      /\ t = NonNullListNonNullID => sig.s = <<"[", "I", "D", "!", "]", "!">>
    /\ \A i \in 1..Len(QueryTypeOf(server).fields) :
          LET t == QueryTypeOf(server).fields[i].type
          IN  /\ unwrap_type(t) = Str(FoldModifiers(Modifiers(t), LeafName(t)))
              /\ StripModifiers(unwrap_type(t).s) = LeafName(t)

\* C1's case: the file of a query of type NON_NULL(LIST(NON_NULL(ID))).
C1_Witness ==
    /\ pc = "load"
    /\ QueryFields[1].type = NonNullListNonNullID
    /\ QueryFile(<<"q">>).returnType = Str(<<"[", "I", "D", "!", "]", "!">>)

\* C2: a null reference, and a chain of wrappers whose innermost reference is
\* null, is rendered as "Unknown" and nothing else.
C2_NullIsUnknown ==
    pc = "written" =>
        \A i \in 1..Len(QueryFields) :
            ~WellFormed(QueryFields[i].type) =>
                ResponseOf(content, QueryFields[i].name) = Unknown

\* The category of each kind.
Category(kind) ==
    IF kind = "INPUT_OBJECT" THEN CatInput
    ELSE IF kind = "ENUM" THEN CatEnum
    ELSE IF kind = "SCALAR" THEN CatScalar
    ELSE IF kind = "UNION" THEN CatUnion
    ELSE IF kind = "INTERFACE" THEN CatInterface
    ELSE CatType

\* C3: the linker turns a canonical signature whose bare name b is in the
\* index into the same signature with b replaced by a link to
\* "<category>-<b>" with text b, the modifiers in place; a signature whose
\* bare name is not in the index stays as it is.
C3_Linked ==
    pc = "written" =>
        \A i \in 1..Len(QueryFields) :
            LET t == QueryFields[i].type
                b == LeafName(t)
                cell == ResponseOf(content, QueryFields[i].name)
            IN  WellFormed(t) =>
                    IF b \in DOMAIN types.val
                    THEN cell = FoldModifiers(Modifiers(t),
                                    Link(Category(types.val[b].kind) \o <<"-">> \o b, b))
                    ELSE cell = FoldModifiers(Modifiers(t), b)

\* C3's case: [A!]! with A an enum, linked to enum-A.
C3_Witness ==
    /\ pc = "written"
    /\ NameA \in DOMAIN types.val
    /\ types.val[NameA].kind = "ENUM"
    /\ queries.val[<<"q">>].returnType = Str(<<"[", "A", "!", "]", "!">>)
    /\ ResponseOf(content, <<"q">>)
           = <<"[">> \o Link(<<"e", "n", "u", "m", "-", "A">>, NameA) \o <<"!", "]", "!">>

-----------------------------------------------------------------------------
(* Claims on the tables (SpecSections).                                     *)

\* The rows of a section, and the ids of its argument subsections.
Rows(sec) == SelectSeq(sec, LAMBDA l : l.tag = "tr")
SubsectionIds(sec) ==
    LET h4 == SelectSeq(sec, LAMBDA l : l.tag = "h4")
    IN  [i \in 1..Len(h4) |-> h4[i].id]

\* The position of the first line of the tag in a section (0: none).
FirstOf(sec, tag) ==
    LET hits == {i \in 1..Len(sec) : sec[i].tag = tag}
    IN  IF hits = {} THEN 0 ELSE CHOOSE i \in hits : \A j \in hits : i <= j

\* How many of the texts hold a link to the target.
RECURSIVE LinksTo(_, _)
LinksTo(texts, target) ==
    IF texts = <<>> THEN 0
    ELSE Len(SelectSeq(Hrefs(Head(texts)), LAMBDA h : h = target))
         + LinksTo(Tail(texts), target)

\* The loaded types of the kinds.
TypesOfKind(kinds) == {n \in DOMAIN types.val : types.val[n].kind \in kinds}

\* C4: in the section of an object or interface type, a field without
\* arguments has its plain name in the field table; a field with arguments
\* has exactly one anchor "<category>-<type>-<field>-args" in the document and
\* exactly one link to it in the field table; and the subsections come after
\* the field table, in the order of the fields.
C4_FieldArguments ==
    pc = "written" =>
        \A n \in TypesOfKind({"OBJECT", "INTERFACE"}) :
            LET obj == types.val[n]
                id == SectionId(Category(obj.kind), n)
                sec == SectionLines(content, id)
                table == SubSeq(Rows(sec), 1, Len(obj.fields))
                names == [i \in 1..Len(table) |-> table[i].cells[1]]
                withArgs == SelectSeq(obj.fields, LAMBDA f : f.args # <<>>)
            IN  /\ Len(table) = Len(obj.fields)
                /\ \A i \in 1..Len(obj.fields) :
                      LET f == obj.fields[i]
                          anchor == LinkId(id, f.name)
                      IN  IF f.args = <<>>
                          THEN names[i] = f.name
                          ELSE /\ Cardinality({k \in 1..Len(content) :
                                                  content[k].id = anchor}) = 1
                               /\ LinksTo(names, anchor) = 1
                               /\ Hrefs(names[i]) = <<anchor>>
                /\ SubsectionIds(sec) = [i \in 1..Len(withArgs) |-> LinkId(id, withArgs[i].name)]
                /\ withArgs # <<>> => FirstOf(sec, "/table") < FirstOf(sec, "h4")

\* The text of an optional value in a cell: nothing when it is missing.
CellText(v) == IF v.none THEN <<>> ELSE v.s

\* The description and default cells the rows of the argument table of args
\* should hold.
ArgCells(args) ==
    [i \in 1..Len(args) |-> <<CellText(args[i].description), CellText(args[i].defaultValue)>>]

\* The description (and default) cells the rows of the section of a type
\* should hold, by the tables the section renders.
RowCells(obj) ==
    IF obj.kind = "OBJECT"
    THEN [i \in 1..Len(obj.fields) |-> <<CellText(obj.fields[i].description)>>]
         \o Flatten([i \in 1..Len(obj.fields) |-> ArgCells(obj.fields[i].args)])
    ELSE IF obj.kind = "INTERFACE"
    THEN [i \in 1..Len(obj.fields) |-> <<CellText(obj.fields[i].description)>>]
    ELSE IF obj.kind = "INPUT_OBJECT" THEN ArgCells(obj.inputFields)
    ELSE [i \in 1..Len(obj.values) |-> <<CellText(obj.values[i].description)>>]

\* The description (and default) cells of the rows of a section: those after
\* the name and, but for an enum value, the type.
OptionalCells(sec, from) ==
    LET rows == Rows(sec)
    IN  [i \in 1..Len(rows) |-> SubSeq(rows[i].cells, from, Len(rows[i].cells))]

\* C7: every entry of every table has its row, and the cell of a missing
\* description or default value (null in the file) is empty.
C7_EmptyCells ==
    pc = "written" =>
        /\ \A n \in DOMAIN queries.val :
              OptionalCells(SectionLines(content, SectionId(CatQuery, n)), 3)
                  = ArgCells(queries.val[n].args)
        /\ \A n \in TypesOfKind({"OBJECT", "INTERFACE", "INPUT_OBJECT", "ENUM"}) :
              LET obj == types.val[n]
              IN  OptionalCells(SectionLines(content, SectionId(Category(obj.kind), n)),
                                IF obj.kind = "ENUM" THEN 2 ELSE 3)
                      = RowCells(obj)

-----------------------------------------------------------------------------
(* Claims on the assembly (SpecAssemble).                                   *)

Categories ==
    <<CatQuery, CatType, CatInput, CatEnum, CatScalar, CatInterface, CatUnion>>

\* The names of the members of the group of a category, in the order of the
\* content: the headings between the group's h1 and the next.
GroupNames(ct, cat) ==
    LET first == querySelector(ct, cat)
        ends == {j \in (first + 1)..Len(ct) : ct[j].tag = "h1"}
        last == IF ends = {} THEN Len(ct) ELSE (CHOOSE j \in ends : \A k \in ends : j <= k) - 1
        h2 == SelectSeq(SubSeq(ct, first, last), LAMBDA l : l.tag = "h2")
    IN  [i \in 1..Len(h2) |-> h2[i].cells[1]]

Ascending(names) == \A i, j \in 1..Len(names) : i < j => StrLess(names[i], names[j])

\* C5: in every group of the document the members are in ascending order of
\* name, whatever order the server declares them in and the directory lists
\* their files in.
C5_GroupsSorted ==
    pc = "written" =>
        \A g \in 1..Len(Categories) : Ascending(GroupNames(content, Categories[g]))

\* C5's case: queries and types declared in descending order.
C5_Witness ==
    /\ pc = "written"
    /\ [i \in 1..Len(server.types) |-> server.types[i].name] = <<NameQ, NameB, NameA>>
    /\ [i \in 1..Len(QueryFields) |-> QueryFields[i].name] = <<NameB, NameA>>
    /\ GroupNames(content, CatType) = <<NameA, NameB, NameQ>>
    /\ GroupNames(content, CatQuery) = <<NameA, NameB>>

\* The ids of the content, in order.
Anchors(ct) ==
    LET withId == SelectSeq(ct, LAMBDA l : l.id # <<>>)
    IN  [i \in 1..Len(withId) |-> withId[i].id]

\* C6: no two anchors of the document are the same.
C6_AnchorsUnique ==
    pc = "written" =>
        \A i, j \in 1..Len(Anchors(content)) :
            i # j => Anchors(content)[i] # Anchors(content)[j]

\* C6's case: a query and a type of the same name, and argument subsections.
C6_Witness ==
    /\ pc = "written"
    /\ querySelector(content, <<"q", "u", "e", "r", "y", "-", "A">>) # 0
    /\ querySelector(content, <<"t", "y", "p", "e", "-", "A">>) # 0
    /\ querySelector(content, <<"t", "y", "p", "e", "-", "A", "-", "f", "-", "a", "r", "g", "s">>) # 0
    /\ querySelector(content, <<"t", "y", "p", "e", "-", "Q", "-", "A", "-", "a", "r", "g", "s">>) # 0

\* C8: every type of the index, of whatever kind, has its anchor
\* "<category>-<name>" in the content, and every link of the document has its
\* target in the content.
C8_LinksResolve ==
    pc = "written" =>
        /\ \A n \in DOMAIN types.val :
              querySelector(content, Category(types.val[n].kind) \o <<"-">> \o n) # 0
        /\ \A i \in 1..Len(content) : \A c \in 1..Len(content[i].cells) :
              \A k \in 1..Len(Hrefs(content[i].cells[c])) :
                  querySelector(content, Hrefs(content[i].cells[c])[k]) # 0

\* The targets of the sidebar's links, and the ids of the content's sections.
SidebarTargets(sb) ==
    LET li == SelectSeq(sb, LAMBDA l : l.tag = "li")
    IN  [i \in 1..Len(li) |-> HrefOf(li[i])]
SectionAnchors(ct) ==
    LET h2 == SelectSeq(ct, LAMBDA l : l.tag = "h2")
    IN  [i \in 1..Len(h2) |-> h2[i].id]

\* C9: the targets of the sidebar's links, group by group, are the anchors of
\* the content's sections, in the same order.
C9_SidebarMatches ==
    pc = "written" => SidebarTargets(sidebar) = SectionAnchors(content)

\* C9's case: queries, and types in the groups Types, Scalars, Interfaces, Unions.
C9_Witness ==
    /\ pc = "written"
    /\ SidebarTargets(sidebar) =
           <<SectionId(CatQuery, NameA), SectionId(CatQuery, NameB),
             SectionId(CatType, NameQ), SectionId(CatScalar, NameA),
             SectionId(CatInterface, NameAB), SectionId(CatUnion, NameB)>>
    /\ SectionAnchors(content) = SidebarTargets(sidebar)

-----------------------------------------------------------------------------
(* Claim on the scroll listener (Spec).                                     *)

\* The reference point of scroll position y is strictly within the span of
\* the section sidebar link i points to.
Within(i, y) ==
    LET section == querySelector(content, HrefOf(sidebar[i]))
        fromTop == y + ScrollOffset
    IN  /\ section # 0
        /\ layout[section].offsetTop < fromTop
        /\ fromTop < layout[section].offsetTop + layout[section].offsetHeight

\* After a scroll event: the link of the one section the reference point is
\* strictly within is the one active link.
OnlyTheSectionInView ==
    pc = "scrolled" =>
        \A k \in SidebarLinks(sidebar) :
            (Within(k, scrollY) /\ \A j \in SidebarLinks(sidebar) \ {k} : ~Within(j, scrollY))
                => active = {k}

====
